---- MODULE Spec2Model ----
(***************************************************************************)
(* find-deleted.py: which processes still map files that were deleted or   *)
(* replaced on disk, and which systemd units or executables to restart.    *)
(* Strings are sequences of one-character strings, so that the regular     *)
(* expressions, startswith/endswith and int() are computed, not assumed.   *)
(***************************************************************************)
EXTENDS Integers, Sequences, FiniteSets, TLC

(* ------------------------------ bounds --------------------------------- *)
\* numeric process directories listed under /proc in the scan
MaxProcs == 2
\* lines of one /proc/<pid>/maps file
MaxLines == 2
\* process ids owning stale paths when the report phase starts
MaxPids == 2
\* full resolver batches in the batching runs (sizes go one past the last)
MaxChunks == 2

(* --------------------------- character data ---------------------------- *)
Digits == {"0", "1", "2", "3", "4", "5", "6", "7", "8", "9"}
HexDigits == Digits \cup {"a", "b", "c", "d", "e", "f"}
NL == "\n"
DELETED == <<" ", "(", "d", "e", "l", "e", "t", "e", "d", ")">>

DigitVal(c) ==
  CASE c = "0" -> 0 [] c = "1" -> 1 [] c = "2" -> 2 [] c = "3" -> 3
    [] c = "4" -> 4 [] c = "5" -> 5 [] c = "6" -> 6 [] c = "7" -> 7
    [] c = "8" -> 8 [] c = "9" -> 9

DigitChar(d) == <<"0", "1", "2", "3", "4", "5", "6", "7", "8", "9">>[d + 1]

\* int(str) on a run of decimal digits
RECURSIVE int(_)
int(s) ==
  IF s = <<>> THEN 0
  ELSE 10 * int(SubSeq(s, 1, Len(s) - 1)) + DigitVal(s[Len(s)])

\* str(n) / '{}'.format(n) for a natural number
RECURSIVE str(_)
str(n) == IF n < 10 THEN <<DigitChar(n)>> ELSE str(n \div 10) \o <<DigitChar(n % 10)>>

startswith(what, prefix) ==
  /\ Len(prefix) <= Len(what)
  /\ SubSeq(what, 1, Len(prefix)) = prefix

endswith(what, suffix) ==
  /\ Len(suffix) <= Len(what)
  /\ SubSeq(what, Len(what) - Len(suffix) + 1, Len(what)) = suffix

\* first index j >= i with s[j] outside cls (Len(s) + 1 when the run reaches the end)
RECURSIVE SpanEnd(_, _, _)
SpanEnd(s, i, cls) ==
  IF i <= Len(s) /\ s[i] \in cls THEN SpanEnd(s, i + 1, cls) ELSE i

\* the same for '.', which matches everything but a newline
RECURSIVE DotEnd(_, _)
DotEnd(s, i) ==
  IF i <= Len(s) /\ s[i] # NL THEN DotEnd(s, i + 1) ELSE i

At(s, i, cls) == i <= Len(s) /\ s[i] \in cls

(* ------------------------------ MAP_REGEX ------------------------------ *)
\* The greedy (.+) always swallows a trailing " (deleted)": group 3 never
\* takes part, and group 2 is everything up to the newline.  When nothing
\* is left for (.+), the matcher backtracks: ' *' gives one blank back, and
\* failing that (\d+) gives its last digit back.
NoMatch == [matched |-> FALSE]

MapTail(line, t) ==
  LET d == SpanEnd(line, t, Digits)
      s == SpanEnd(line, d, {" "})
      r == DotEnd(line, s)
      terminated == /\ At(line, r, {NL})
                    /\ \/ r = Len(line)
                       \/ r + 1 = Len(line) /\ line[Len(line)] = NL
      p == IF r > s THEN s
           ELSE IF s > d THEN s - 1
           ELSE IF d - t >= 2 THEN d - 1
           ELSE 0
  IN IF d > t /\ terminated /\ p > 0
     THEN [matched |-> TRUE,
           group1 |-> SubSeq(line, t, (IF p < d THEN p ELSE d) - 1),
           group2 |-> SubSeq(line, p, r - 1)]
     ELSE NoMatch

MAP_REGEX(line) ==
  LET a == SpanEnd(line, 1, HexDigits)
      b == SpanEnd(line, a + 1, HexDigits)
      c == SpanEnd(line, b + 6, HexDigits)
  IN IF /\ a > 1 /\ At(line, a, {"-"})
        /\ b > a + 1 /\ At(line, b, {" "})
        /\ At(line, b + 1, {"r", "-"}) /\ At(line, b + 2, {"w", "-"})
        /\ At(line, b + 3, {"x", "-"}) /\ At(line, b + 4, {"s", "p", "-"})
        /\ At(line, b + 5, {" "})
        /\ c > b + 6 /\ At(line, c, {" "})
        /\ At(line, c + 1, HexDigits) /\ At(line, c + 2, HexDigits)
        /\ At(line, c + 3, {":"})
        /\ At(line, c + 4, HexDigits) /\ At(line, c + 5, HexDigits)
        /\ At(line, c + 6, {" "})
     THEN MapTail(line, c + 7)
     ELSE NoMatch

(* ------------------------------ PS_REGEX ------------------------------- *)
\* '^ *(\d+) (.*)' under match(): anchored at the start only
PS_REGEX(line) ==
  LET a == SpanEnd(line, 1, {" "})
      d == SpanEnd(line, a, Digits)
  IN IF d > a /\ At(line, d, {" "})
     THEN [matched |-> TRUE,
           group1 |-> SubSeq(line, a, d - 1),
           group2 |-> SubSeq(line, d + 1, DotEnd(line, d + 1) - 1)]
     ELSE NoMatch

(* ------------------------------ matcher -------------------------------- *)
\* A by_regex item is a sequence of atoms: a literal character or "\\d+".
\* re.compile keeps it as it is; fullmatch is computed on it.
RECURSIVE fullmatch(_, _)
fullmatch(regex, what) ==
  IF regex = <<>> THEN what = <<>>
  ELSE IF Head(regex) = "\\d+"
       THEN \E k \in 1..Len(what) :
              /\ \A i \in 1..k : what[i] \in Digits
              /\ fullmatch(Tail(regex), SubSeq(what, k + 1, Len(what)))
       ELSE /\ what # <<>>
            /\ Head(what) = Head(regex)
            /\ fullmatch(Tail(regex), Tail(what))

MatcherKeys == {"by_prefix", "by_full", "by_regex"}

pop(spec, key, default) == IF key \in DOMAIN spec THEN spec[key] ELSE default

\* what is left of a matcher spec after the three pops
matcher_rest(spec) == DOMAIN spec \ MatcherKeys

\* the closure matcher() returns, as the three collections it closes over
matcher(spec) ==
  [prefixes |-> pop(spec, "by_prefix", {}),
   fulls |-> pop(spec, "by_full", {}),
   regexes |-> pop(spec, "by_regex", {})]

match(m, what) ==
  /\ what # <<>>
  /\ \/ \E prefix \in m.prefixes : startswith(what, prefix)
     \/ \E full \in m.fulls : what = full
     \/ \E regex \in m.regexes : fullmatch(regex, what)

\* parse_group_services: the first entry that raises, or "" when none does
RECURSIVE GroupsRaise(_)
GroupsRaise(specs) ==
  IF specs = <<>> THEN ""
  ELSE IF "group" \notin DOMAIN Head(specs) THEN "KeyError"
  ELSE IF matcher_rest(Head(specs)) \ {"group"} # {} THEN "Exception"
  ELSE GroupsRaise(Tail(specs))

parse_group_services(specs) ==
  [i \in 1..Len(specs) |-> [ma |-> matcher(specs[i]), name |-> specs[i]["group"]]]

RECURSIVE group_match(_, _)
group_match(groups, what) ==
  IF groups = <<>> THEN "other"
  ELSE IF match(Head(groups).ma, what) THEN Head(groups).name
  ELSE group_match(Tail(groups), what)

SpecKeys == {"ignore_paths", "catchall_units", "group_services"}

\* main, lines 181-189: the exception that leaves main, "exit2", or "" 
LoadOutcome(doc) ==
  IF "ignore_paths" \notin DOMAIN doc THEN "KeyError"
  ELSE IF matcher_rest(doc["ignore_paths"]) # {} THEN "Exception"
  ELSE IF "catchall_units" \notin DOMAIN doc THEN "KeyError"
  ELSE IF matcher_rest(doc["catchall_units"]) # {} THEN "Exception"
  ELSE IF "group_services" \notin DOMAIN doc THEN "KeyError"
  ELSE IF GroupsRaise(doc["group_services"]) # "" THEN GroupsRaise(doc["group_services"])
  ELSE IF DOMAIN doc \ SpecKeys # {} THEN "exit2"
  ELSE ""

\* lambda path: not ignore_paths(path)
pre_filter_all(ip, path) == TRUE
pre_filter(ip, path) == ~match(ip, path)

(* --------------------------- configuration documents ------------------- *)
Tmp == <<"/", "t", "/">>
NginxService == <<"n", ".", "s">>
SshService == <<"s", ".", "s">>
UserService == <<"u", "@", "1", ".", "s">>
UserRegex == <<"u", "@", "\\d+", ".", "s">>

IgnoreSpec == [by_prefix |-> {Tmp}, by_full |-> {<<"[", "h", "]">>}]
CatchallSpec == [by_regex |-> {UserRegex}]
GroupSpecs == <<[group |-> "web", by_full |-> {NginxService}],
                [group |-> "all", by_prefix |-> {<<"n">>, <<"s">>}]>>

GoodDoc ==
  [ignore_paths |-> IgnoreSpec, catchall_units |-> CatchallSpec,
   group_services |-> GroupSpecs]

Docs ==
  { GoodDoc,
    [GoodDoc EXCEPT !.ignore_paths = [by_full |-> {}], !.group_services = <<>>],
    [ignore_paths |-> IgnoreSpec, catchall_units |-> CatchallSpec,
     group_services |-> GroupSpecs, verbose |-> {}],
    [GoodDoc EXCEPT !.ignore_paths = [by_prefix |-> {Tmp}, by_glob |-> {}]],
    [GoodDoc EXCEPT !.catchall_units = [by_regex |-> {UserRegex}, by_glob |-> {}]],
    [GoodDoc EXCEPT !.group_services =
       <<[group |-> "web", by_full |-> {NginxService}, by_glob |-> {}]>>],
    [GoodDoc EXCEPT !.group_services = <<[by_full |-> {NginxService}]>>],
    [ignore_paths |-> [by_glob |-> {}], catchall_units |-> CatchallSpec,
     group_services |-> GroupSpecs, verbose |-> {}],
    [ignore_paths |-> IgnoreSpec, group_services |-> GroupSpecs, verbose |-> {}] }

(* ------------------------------- state --------------------------------- *)
VARIABLES
  pc,              \* position in main
  exit_code,       \* process exit status once pc = "exit"
  exc,             \* the uncaught exception that ended the run, "" if none
  cfg,             \* deleted.yml as loaded by yaml.safe_load
  ignore_paths, catchall_units, group_services,   \* the three closures of main
  tracker,         \* Tracker: [permission_errors]
  fs,              \* what stat answers for a path
  entries,         \* /proc entries load_maps has not reached yet
  cur_pid, lines,  \* the pid being read and how many of its lines are left
                   \* (what a line holds is drawn when the loop reaches it)
  cur,             \* the record awaiting its stat
  users,           \* pids_using_files: path -> set of pids
  pid_paths,       \* main: pid -> set of stale paths
  all_pids,        \* pid_paths.keys(), in iteration order
  todo,            \* split_every: the pids the iterator has not yielded
  ps_world,        \* what ps knows about each pid
  output,          \* unit_names_for: pid -> unit, as built so far
  pid_units, groups, non_units, pid_exes, unit_paths, by_exe,
  loop,            \* pids a for-loop of main has not reached yet
  warnings,        \* what warn() wrote to stderr
  stat_log,        \* every os.stat pids_using_files issued, with its answer
  perm_denied,     \* permission-denied failures the system answered
  listed,          \* whether /proc has been enumerated
  maps_read,       \* the mappings read so far, each with its pid
  ps_calls,        \* argument lists of the ps calls made
  unit_members     \* pids whose paths went into unit_paths

scan_vars == <<tracker, fs, entries, cur_pid, lines, cur, users>>
unit_vars == <<all_pids, todo, ps_world, output, ps_calls>>
report_vars == <<pid_units, groups, non_units, pid_exes, unit_paths, by_exe, loop,
                 unit_members>>
conf_vars == <<cfg, ignore_paths, catchall_units, group_services>>
vars == <<pc, exit_code, exc, conf_vars, scan_vars, pid_paths, unit_vars,
          report_vars, warnings, stat_log, perm_denied, listed, maps_read>>

Empty == [x \in {} |-> {}]
NoMatcher == matcher(Empty)

\* collections.defaultdict(set): d[k].add(v)
add(d, k, v) ==
  [x \in DOMAIN d \cup {k} |->
     (IF x \in DOMAIN d THEN d[x] ELSE {}) \cup (IF x = k THEN {v} ELSE {})]

\* d[k].update(vs)
update(d, k, vs) ==
  [x \in DOMAIN d \cup {k} |->
     (IF x \in DOMAIN d THEN d[x] ELSE {}) \cup (IF x = k THEN vs ELSE {})]

(* ------------------------- exceptions of the run ----------------------- *)
\* An exception object is an instance; PermissionError and FileNotFoundError
\* are the class objects the handlers name.
PermissionError == [class |-> "PermissionError"]
FileNotFoundError == [class |-> "FileNotFoundError"]
OSErrorOf(name) == [instance_of |-> name]
isinstance(e, cls) == e.instance_of = cls.class
\* the identity test of lines 88 and 118: 'e is PermissionError'
is(e, cls) == e = cls

(* ------------------------------ the system ----------------------------- *)
LibA == <<"/", "l", "/", "a">>
LibB == <<"/", "l", "/", "b">>
TmpX == <<"/", "t", "/", "x">>
Dev == <<"0", "8", ":", "0", "1">>
NvmeDev == <<"1", "0", "3", ":", "0", "2">>

\* the mappings a process can have: a library with and without the deleted
\* marker, a deleted scratch file, an anonymous region, and a library on a device whose major
\* number takes three hex digits
LineRecs ==
  { [dev |-> Dev, inode |-> 12, name |-> LibA, deleted |-> FALSE],
    [dev |-> Dev, inode |-> 12, name |-> LibA, deleted |-> TRUE],
    [dev |-> Dev, inode |-> 9, name |-> TmpX, deleted |-> TRUE],
    [dev |-> Dev, inode |-> 0, name |-> <<>>, deleted |-> FALSE],
    [dev |-> NvmeDev, inode |-> 12, name |-> LibA, deleted |-> FALSE] }

\* one line of /proc/<pid>/maps as the kernel prints it
FormatLine(rec) ==
  <<"0", "-", "1", " ", "r", "-", "x", "p", " ", "0", " ">> \o rec.dev \o <<" ">>
    \o str(rec.inode) \o <<" ">> \o rec.name
    \o (IF rec.deleted THEN DELETED ELSE <<>>) \o <<NL>>

StatOk(ino) == [err |-> "", ino |-> ino]
StatErr(name) == [err |-> name, ino |-> 0]

\* the file systems of the runs: each answer for the library; the scratch
\* file is gone
Worlds ==
  { (LibA :> a) @@ (TmpX :> StatErr("FileNotFoundError")) :
      a \in {StatOk(12), StatOk(13), StatErr("FileNotFoundError"),
             StatErr("PermissionError")} }

os_stat(world, path) ==
  IF path \in DOMAIN world THEN world[path] ELSE StatErr("FileNotFoundError")

\* os.scandir('/proc'): a non-numeric directory, a numeric non-directory,
\* then the process directories
Listings ==
  { <<[name |-> <<"s">>, is_dir |-> TRUE], [name |-> <<"9">>, is_dir |-> FALSE]>>
      \o [i \in 1..k |-> [name |-> str(i), is_dir |-> TRUE]] : k \in 0..MaxProcs }

isdigit(name) == name # <<>> /\ \A i \in 1..Len(name) : name[i] \in Digits

\* open() of /proc/<pid>/maps and readlines(): an error, or so many lines
OpenOutcomes ==
  {[err |-> "", n |-> n] : n \in 0..MaxLines}
    \cup {[err |-> e, n |-> 0] : e \in {"PermissionError", "FileNotFoundError"}}

(* ------------------------------ the scan ------------------------------- *)
Warning(kind, pid, what) == [kind |-> kind, pid |-> pid, what |-> what]

Abort(name) ==
  /\ pc' = "exit"
  /\ exit_code' = 1
  /\ exc' = name

\* lines 88-89 and 118-119
count_permission(t, e) ==
  [t EXCEPT !.permission_errors = @ + (IF is(e, PermissionError) THEN 1 ELSE 0)]

Denied(name) == IF name = "PermissionError" THEN 1 ELSE 0

\* lines 106-107
strip_deleted_kept(path) == path
strip_deleted(path) ==
  IF endswith(path, DELETED) THEN SubSeq(path, 1, Len(path) - 10) ELSE path

\* lines 112-116: does this answer of os.stat add the pid to users[path]
stat_adds(res, inode) ==
  IF res.err = "" THEN res.ino # inode
  ELSE isinstance(OSErrorOf(res.err), FileNotFoundError)

\* ascending and descending order of a set of pids
RECURSIVE Ascending(_)
Ascending(S) ==
  IF S = {} THEN <<>>
  ELSE LET m == CHOOSE x \in S : \A y \in S : int(x) <= int(y)
       IN <<m>> \o Ascending(S \ {m})

Reverse(s) == [i \in 1..Len(s) |-> s[Len(s) + 1 - i]]
Orders(S) == {Ascending(S), Reverse(Ascending(S))}

\* lines 193-196
invert(path_pids) ==
  LET pids == UNION {path_pids[p] : p \in DOMAIN path_pids}
  IN [pid \in pids |-> {p \in DOMAIN path_pids : pid \in path_pids[p]}]

Init ==
  /\ pc = "config"
  /\ exit_code = 0
  /\ exc = ""
  /\ cfg \in Docs
  /\ ignore_paths = NoMatcher
  /\ catchall_units = NoMatcher
  /\ group_services = <<>>
  /\ tracker = [permission_errors |-> 0]
  /\ fs \in Worlds
  /\ entries = <<>>
  /\ cur_pid = <<>>
  /\ lines = 0
  /\ cur = [pid |-> <<>>, inode |-> 0, path |-> <<>>]
  /\ users = Empty
  /\ pid_paths = Empty
  /\ all_pids = <<>>
  /\ todo = <<>>
  /\ ps_world = Empty
  /\ output = Empty
  /\ pid_units = Empty
  /\ groups = Empty
  /\ non_units = FALSE
  /\ pid_exes = Empty
  /\ unit_paths = Empty
  /\ by_exe = Empty
  /\ loop = <<>>
  /\ warnings = {}
  /\ stat_log = {}
  /\ perm_denied = 0
  /\ listed = FALSE
  /\ maps_read = {}
  /\ ps_calls = <<>>
  /\ unit_members = {}

\* main, lines 181-191
LoadConfig ==
  /\ pc = "config"
  /\ LET o == LoadOutcome(cfg)
     IN IF o \in {"", "exit2"}
        THEN /\ ignore_paths' = matcher(cfg["ignore_paths"])
             /\ catchall_units' = matcher(cfg["catchall_units"])
             /\ group_services' = parse_group_services(cfg["group_services"])
             /\ pc' = IF o = "" THEN "scandir" ELSE "exit"
             /\ exit_code' = IF o = "" THEN 0 ELSE 2
             /\ exc' = ""
        ELSE /\ Abort(o)
             /\ UNCHANGED <<ignore_paths, catchall_units, group_services>>
  /\ UNCHANGED <<cfg, scan_vars, pid_paths, unit_vars, report_vars, warnings,
                 stat_log, perm_denied, listed, maps_read>>

\* load_maps, line 81: the directory listing
ScanDir ==
  /\ pc = "scandir"
  /\ \E listing \in Listings : entries' = listing
  /\ pc' = "load_maps"
  /\ listed' = TRUE
  /\ UNCHANGED <<exit_code, exc, conf_vars, tracker, fs, cur_pid, lines, cur, users,
                 pid_paths, unit_vars, report_vars, warnings, stat_log, perm_denied,
                 maps_read>>

AfterLine(left) == IF left = 0 THEN "load_maps" ELSE "lines"

\* load_maps, lines 81-90: one entry of the listing
LoadMaps ==
  /\ pc = "load_maps"
  /\ entries # <<>>
  /\ LET entry == Head(entries)
         skipped == ~entry.is_dir \/ ~isdigit(entry.name)
     IN \E o \in (IF skipped THEN {[err |-> "skip", n |-> 0]} ELSE OpenOutcomes) :
          /\ entries' = Tail(entries)
          /\ IF o.err = "skip"
             THEN UNCHANGED <<pc, tracker, cur_pid, lines, warnings, perm_denied>>
             ELSE IF o.err = ""
             THEN /\ cur_pid' = entry.name
                  /\ lines' = o.n
                  /\ pc' = AfterLine(o.n)
                  /\ UNCHANGED <<tracker, warnings, perm_denied>>
             ELSE /\ tracker' = count_permission(tracker, OSErrorOf(o.err))
                  /\ warnings' = warnings \cup {Warning("maps", entry.name, <<>>)}
                  /\ perm_denied' = perm_denied + Denied(o.err)
                  /\ UNCHANGED <<pc, cur_pid, lines>>
  /\ UNCHANGED <<exit_code, exc, conf_vars, fs, cur, users, pid_paths, unit_vars,
                 report_vars, stat_log, listed, maps_read>>

\* pids_using_files, lines 96-110: one line up to the filter
ParseLine ==
  /\ pc = "lines"
  /\ \E rec \in LineRecs :
       LET line == FormatLine(rec)
           ma == MAP_REGEX(line)
           inode == int(ma.group1)
           path == strip_deleted(ma.group2)
       IN /\ maps_read' = maps_read \cup {[pid |-> cur_pid, rec |-> rec]}
          /\ IF ~ma.matched
             THEN /\ warnings' = warnings \cup {Warning("parse", cur_pid, line)}
                  /\ Abort("AttributeError")
                  /\ UNCHANGED <<lines, cur>>
             ELSE /\ lines' = lines - 1
                  /\ UNCHANGED <<warnings, exit_code, exc>>
                  /\ IF 0 = inode \/ ~pre_filter(ignore_paths, path)
                     THEN /\ pc' = AfterLine(lines - 1)
                          /\ UNCHANGED cur
                     ELSE /\ pc' = "stat"
                          /\ cur' = [pid |-> cur_pid, rec |-> rec, inode |-> inode,
                                     path |-> path]
  /\ UNCHANGED <<conf_vars, tracker, fs, entries, cur_pid, users, pid_paths,
                 unit_vars, report_vars, stat_log, perm_denied, listed>>

\* pids_using_files, lines 112-120: the stat and what follows from it
StatPath ==
  /\ pc = "stat"
  /\ LET res == os_stat(fs, cur.path)
     IN /\ stat_log' = stat_log \cup
                         {[pid |-> cur.pid, rec |-> cur.rec, path |-> cur.path,
                           res |-> res]}
        /\ users' = IF stat_adds(res, cur.inode) THEN add(users, cur.path, cur.pid)
                    ELSE users
        /\ IF res.err \notin {"", "FileNotFoundError"}
           THEN /\ tracker' = count_permission(tracker, OSErrorOf(res.err))
                /\ warnings' = warnings \cup {Warning("stat", cur.pid, cur.path)}
                /\ perm_denied' = perm_denied + Denied(res.err)
           ELSE UNCHANGED <<tracker, warnings, perm_denied>>
  /\ pc' = AfterLine(lines)
  /\ UNCHANGED <<exit_code, exc, conf_vars, fs, entries, cur_pid, lines, cur,
                 pid_paths, unit_vars, report_vars, listed, maps_read>>

\* pids_using_files returns; main, lines 193-198
ScanReturn ==
  /\ pc = "load_maps"
  /\ entries = <<>>
  /\ pid_paths' = invert(users)
  /\ \E order \in Orders(DOMAIN invert(users)) : all_pids' = order /\ todo' = order
  /\ pc' = "units"
  /\ UNCHANGED <<exit_code, exc, conf_vars, scan_vars, ps_world, output, ps_calls,
                 report_vars, warnings, stat_log, perm_denied, listed, maps_read>>

Next == LoadConfig \/ ScanDir \/ LoadMaps \/ ParseLine \/ StatPath \/ ScanReturn

Spec == Init /\ [][Next]_vars

(* ------------------------- properties of the scan ---------------------- *)
ProcNames == {str(i) : i \in 1..MaxProcs}
ScanPaths == DOMAIN users \cup {m.rec.name : m \in maps_read}
Ignored(path) == match(matcher(cfg["ignore_paths"]), path)

\* what a fresh stat of path says about a mapping of inode
FreshStale(path, inode) ==
  LET res == os_stat(fs, path)
  IN \/ res.err = "FileNotFoundError"
     \/ res.err = "" /\ res.ino # inode

\* C1: once pids_using_files has returned, pid is in users[path] exactly
\* when one of its mappings has a non-zero inode and that path (the printed
\* path without its deleted marker; no name of LineRecs carries one itself),
\* the path passes the filter, and its stat failed with not-found or gave
\* another inode.  Inode 0, filtered paths, equal inodes and other stat
\* failures add nothing.
C1_StaleIffStatSaysSo ==
  pc = "units" =>
    \A pid \in ProcNames, path \in ScanPaths :
      (path \in DOMAIN users /\ pid \in users[path])
        <=> \E m \in maps_read :
              /\ m.pid = pid
              /\ m.rec.inode # 0
              /\ m.rec.name = path
              /\ ~Ignored(path)
              /\ FreshStale(path, m.rec.inode)

C1_Witness ==
  /\ pc = "units"
  /\ LibA \in DOMAIN users
  /\ TmpX \notin DOMAIN users
  /\ \E m \in maps_read : m.pid \in users[LibA] /\ m.rec.deleted /\ m.rec.name = LibA
  /\ \E m \in maps_read : m.pid \in users[LibA] /\ ~m.rec.deleted /\ m.rec.name = LibA
  /\ \E m \in maps_read : m.rec.inode = 0
  /\ \E m \in maps_read : m.rec.name = TmpX
  /\ fs[LibA] = StatOk(13)

\* C5: a line MAP_REGEX does not match is reported and skipped, and the
\* scan goes on with the lines and processes that remain.
C5_MalformedLineSkipped ==
  (\E w \in warnings : w.kind = "parse") => pc # "exit"

UnknownTop(doc) == DOMAIN doc \ {"ignore_paths", "catchall_units", "group_services"} # {}
UnknownNested(doc) ==
  \/ \E k \in {"ignore_paths", "catchall_units"} \cap DOMAIN doc :
       ~(DOMAIN doc[k] \subseteq {"by_prefix", "by_full", "by_regex"})
  \/ /\ "group_services" \in DOMAIN doc
     /\ \E i \in 1..Len(doc["group_services"]) :
          ~(DOMAIN doc["group_services"][i]
              \subseteq {"group", "by_prefix", "by_full", "by_regex"})
Loads(doc) ==
  /\ {"ignore_paths", "catchall_units", "group_services"} \subseteq DOMAIN doc
  /\ \A i \in 1..Len(doc["group_services"]) : "group" \in DOMAIN doc["group_services"][i]
NothingScanned == ~listed /\ maps_read = {} /\ stat_log = {}

\* C7: an unrecognized key at any level ends the run with exit code 2
\* before anything is scanned.
C7_UnknownKeyExits2 ==
  (pc # "config" /\ (UnknownTop(cfg) \/ UnknownNested(cfg))) =>
    (pc = "exit" /\ exit_code = 2 /\ NothingScanned)

\* What the code does with such a document: the run does end before
\* anything is scanned, but with exit code 2 only when the unrecognized
\* keys are all at the top level of a document whose sections load; the
\* exception matcher raises for a key inside a matcher spec or a
\* group_services entry is not caught, and the exit code is 1.
UnknownKeyEndsRun ==
  (pc # "config" /\ (UnknownTop(cfg) \/ UnknownNested(cfg))) =>
    /\ pc = "exit"
    /\ NothingScanned
    /\ exit_code = (IF UnknownNested(cfg) \/ ~Loads(cfg) THEN 1 ELSE 2)

\* C8: when the scan ends, Tracker.permission_errors is the number of
\* permission-denied failures met while opening maps files and stat'ing
\* paths.
C8_CounterCountsDenials ==
  pc = "units" => tracker.permission_errors = perm_denied

\* C9: no path the filter excludes is ever stat'ed: every stat issued, and
\* the one about to be issued, is of a path ignore_paths does not match.
C9_FilterBeforeStat ==
  /\ \A e \in stat_log : ~Ignored(e.path)
  /\ pc = "stat" => ~Ignored(cur.path)

C9_Witness ==
  /\ pc = "units"
  /\ \E m \in maps_read : m.rec.name = TmpX /\ Ignored(TmpX)
  /\ \E e \in stat_log : e.pid \in {m.pid : m \in {x \in maps_read : x.rec.name = TmpX}}

(* ---------------------------- unit_names_for --------------------------- *)
max_pids_per_call == 4096 \div 8 - 32

\* list(itertools.islice(it, n)) and what it leaves in the iterator
islice_one_more(it, n) == SubSeq(it, 1, IF Len(it) < n + 1 THEN Len(it) ELSE n + 1)
islice(it, n) == SubSeq(it, 1, IF Len(it) < n THEN Len(it) ELSE n)
rest(it, piece) == SubSeq(it, Len(piece) + 1, Len(it))

\* what ps knows about a pid: gone, or alive in a unit ("-" for none)
Gone == [alive |-> FALSE, unit |-> <<>>]
InUnit(unit) == [alive |-> TRUE, unit |-> unit]
Dash == <<"-">>

\* one line of 'ps -opid=,unit=': the pid right-aligned in five columns
PsLine(pid, unit) ==
  [i \in 1..(IF Len(pid) < 5 THEN 5 - Len(pid) ELSE 0) |-> " "] \o pid \o <<" ">> \o unit

\* the lines of the output of ps for these pids, as split('\n') gives them
PsLines(world, chunk) ==
  LET alive(pid) == world[pid].alive
      found == SelectSeq(chunk, alive)
  IN [i \in 1..Len(found) |-> PsLine(found[i], world[found[i]].unit)] \o <<<<>>>>

\* lines 49-58: the loop over the lines lo..hi of one ps output, later
\* lines overwriting earlier ones (halved, to keep the nesting shallow)
RECURSIVE units_of(_, _, _)
units_of(pslines, lo, hi) ==
  IF lo > hi THEN Empty
  ELSE IF lo = hi
  THEN LET ma == PS_REGEX(pslines[lo])
       IN IF ~ma.matched \/ Dash = ma.group2 THEN Empty
          ELSE (ma.group1 :> ma.group2)
  ELSE LET mid == (lo + hi) \div 2
       IN units_of(pslines, mid + 1, hi) @@ units_of(pslines, lo, mid)

record_units(out, pslines) == units_of(pslines, 1, Len(pslines)) @@ out

\* lines 46-58: one chunk of split_every and its ps call; ps exits with
\* status 1 when it finds none of the pids, and check_output raises
UnitCall ==
  /\ pc = "units"
  /\ todo # <<>>
  /\ LET chunk == islice(todo, max_pids_per_call)
         pslines == PsLines(ps_world, chunk)
     IN /\ ps_calls' = Append(ps_calls, chunk)
        /\ todo' = rest(todo, chunk)
        /\ IF Len(pslines) = 1
           THEN /\ Abort("CalledProcessError")
                /\ UNCHANGED output
           ELSE /\ output' = record_units(output, pslines)
                /\ UNCHANGED <<pc, exit_code, exc>>
  /\ UNCHANGED <<conf_vars, scan_vars, pid_paths, all_pids, ps_world, report_vars,
                 warnings, stat_log, perm_denied, listed, maps_read>>

\* line 60 and the assignment of line 199
UnitsReturn ==
  /\ pc = "units"
  /\ todo = <<>>
  /\ pid_units' = output
  /\ pc' = "summary"
  /\ UNCHANGED <<exit_code, exc, conf_vars, scan_vars, pid_paths, unit_vars, groups,
                 non_units, pid_exes, unit_paths, by_exe, loop, unit_members,
                 warnings, stat_log, perm_denied, listed, maps_read>>

(* ------------------------ batching runs (unit_names_for) --------------- *)
PsAnswers ==
  {Gone, InUnit(Dash), InUnit(<<>>), InUnit(NginxService), InUnit(SshService),
   InUnit(UserService)}

\* repeating patterns of answers, by pid number
Patterns ==
  { <<InUnit(NginxService)>>,
    <<Gone>>,
    <<InUnit(Dash), Gone, InUnit(NginxService)>>,
    <<InUnit(SshService), InUnit(Dash)>>,
    <<Gone, InUnit(UserService), InUnit(Dash), InUnit(NginxService), InUnit(<<>>)>>,
    <<InUnit(NginxService), Gone, Gone, Gone, Gone, Gone, Gone>> }

BatchSizes ==
  { n \in { k * max_pids_per_call + d : k \in 0..MaxChunks, d \in {0 - 1, 0, 1, 7} } :
      n >= 0 }

Range(f) == {f[x] : x \in DOMAIN f}

InitShared ==
  /\ exit_code = 0
  /\ exc = ""
  /\ tracker = [permission_errors |-> 0]
  /\ fs \in {CHOOSE w \in Worlds : TRUE}
  /\ entries = <<>>
  /\ cur_pid = <<>>
  /\ lines = 0
  /\ cur = [pid |-> <<>>, inode |-> 0, path |-> <<>>]
  /\ users = [p \in UNION Range(pid_paths) |-> {pid \in DOMAIN pid_paths : p \in pid_paths[pid]}]
  /\ todo = all_pids
  /\ output = Empty
  /\ pid_units = Empty
  /\ groups = Empty
  /\ non_units = FALSE
  /\ pid_exes = Empty
  /\ unit_paths = Empty
  /\ by_exe = Empty
  /\ loop = <<>>
  /\ warnings = {}
  /\ stat_log = {}
  /\ perm_denied = 0
  /\ ps_calls = <<>>
  /\ unit_members = {}
  /\ listed = TRUE
  /\ maps_read = {}
  /\ ignore_paths = matcher(cfg["ignore_paths"])
  /\ catchall_units = matcher(cfg["catchall_units"])
  /\ group_services = parse_group_services(cfg["group_services"])

\* main at line 199, with many pids owning a stale path
InitUnits ==
  /\ pc = "units"
  /\ cfg = GoodDoc
  /\ \E n \in BatchSizes, pattern \in Patterns :
       /\ all_pids \in {[i \in 1..n |-> str(i)], [i \in 1..n |-> str(n + 1 - i)]}
       /\ ps_world = [pid \in {str(i) : i \in 1..n} |->
                        pattern[(int(pid) % Len(pattern)) + 1]]
       /\ pid_paths = [pid \in {str(i) : i \in 1..n} |-> {LibA}]
  /\ InitShared

NextUnits == UnitCall \/ UnitsReturn

SpecUnits == InitUnits /\ [][NextUnits]_vars

RECURSIVE TotalLen(_)
TotalLen(calls) == IF calls = <<>> THEN 0 ELSE Len(Head(calls)) + TotalLen(Tail(calls))

\* what one ps call over all the pids would give, '-' left out
UnboundedCall ==
  [pid \in {p \in Range(all_pids) : ps_world[p].alive /\ ps_world[p].unit # Dash} |->
     ps_world[pid].unit]

Alphabet == <<"/", "0", "1", "2", "3", "4", "5", "6", "7", "8", "9", "b", "x", "y">>
Rank(c) == CHOOSE i \in 1..Len(Alphabet) : Alphabet[i] = c

RECURSIVE StrLess(_, _)
StrLess(a, b) ==
  IF b = <<>> THEN FALSE
  ELSE IF a = <<>> THEN TRUE
  ELSE IF Head(a) = Head(b) THEN StrLess(Tail(a), Tail(b))
  ELSE Rank(Head(a)) < Rank(Head(b))

RECURSIVE sorted(_)
sorted(S) ==
  IF S = {} THEN <<>>
  ELSE LET m == CHOOSE x \in S : \A y \in S \ {x} : StrLess(x, y)
       IN <<m>> \o sorted(S \ {m})

\* line 224: 'unit and not catchall_units(unit)', unit = pid_units.get(pid)
usable_unit_any(units, pid, cu) == pid \in DOMAIN units /\ units[pid] # <<>>
usable_unit(units, pid, cu) ==
  /\ pid \in DOMAIN units
  /\ units[pid] # <<>>
  /\ ~match(cu, units[pid])

\* lines 226-231: by_exe after one pid, given whether line 224 held
by_exe_fallthrough(by, exes, pid, usable) ==
  IF pid \notin DOMAIN exes \/ exes[pid] = <<>> THEN by ELSE add(by, exes[pid], pid)
by_exe_after(by, exes, pid, usable) ==
  IF usable \/ pid \notin DOMAIN exes \/ exes[pid] = <<>> THEN by
  ELSE add(by, exes[pid], pid)

Exes == {<<"/", "b", "/", "x">>, <<"/", "b", "/", "y">>}

NextPhase(remaining, again, after) == IF remaining = <<>> THEN after ELSE again

\* lines 200-216: the grouped summary
Summary ==
  /\ pc = "summary"
  /\ LET units == Range(pid_units)
         kept == {unit \in units : ~match(catchall_units, unit)}
     IN /\ non_units' = (kept # units)
        /\ groups' = [group \in {group_match(group_services, unit) : unit \in kept} |->
                        {unit \in kept : group_match(group_services, unit) = group}]
  /\ loop' = all_pids
  /\ pc' = NextPhase(all_pids, "exes", "exit")
  /\ UNCHANGED <<exit_code, exc, conf_vars, scan_vars, pid_paths, unit_vars, pid_units,
                 pid_exes, unit_paths, by_exe, unit_members, warnings, stat_log,
                 perm_denied, listed, maps_read>>

\* exe_paths_for, lines 65-69: one pid
ExeReadlink ==
  /\ pc = "exes"
  /\ LET pid == Head(loop)
     IN \E link \in Exes \cup {<<>>} :
          IF link = <<>>
          THEN /\ warnings' = warnings \cup {Warning("exe", pid, <<>>)}
               /\ UNCHANGED pid_exes
          ELSE /\ pid_exes' = (pid :> link) @@ pid_exes
               /\ UNCHANGED warnings
  /\ loop' = NextPhase(Tail(loop), Tail(loop), all_pids)
  /\ pc' = NextPhase(Tail(loop), "exes", "classify")
  /\ UNCHANGED <<exit_code, exc, conf_vars, scan_vars, pid_paths, unit_vars, pid_units,
                 groups, non_units, unit_paths, by_exe, unit_members, stat_log,
                 perm_denied, listed, maps_read>>

\* lines 222-231: one pid of pid_paths
Classify ==
  /\ pc = "classify"
  /\ LET pid == Head(loop)
         usable == usable_unit(pid_units, pid, catchall_units)
     IN /\ unit_paths' = IF usable
                         THEN update(unit_paths, pid_units[pid], pid_paths[pid])
                         ELSE unit_paths
        /\ unit_members' = IF usable THEN unit_members \cup {pid} ELSE unit_members
        /\ by_exe' = by_exe_after(by_exe, pid_exes, pid, usable)
        /\ warnings' =
             IF ~usable /\ (pid \notin DOMAIN pid_exes \/ pid_exes[pid] = <<>>)
             THEN warnings \cup {Warning("nounit", pid, <<>>)}
             ELSE warnings
  /\ loop' = Tail(loop)
  /\ pc' = NextPhase(Tail(loop), "classify", "print")
  /\ UNCHANGED <<exit_code, exc, conf_vars, scan_vars, pid_paths, unit_vars, pid_units,
                 groups, non_units, pid_exes, stat_log, perm_denied, listed,
                 maps_read>>

\* the pids of by_exe in the order lines 242-249 reach them
RECURSIVE PrintOrder(_, _)
PrintOrder(by, exes) ==
  IF exes = <<>> THEN <<>>
  ELSE sorted(by[Head(exes)]) \o PrintOrder(by, Tail(exes))

\* lines 233-242: the units are printed, the executables come next
PrintReport ==
  /\ pc = "print"
  /\ loop' = PrintOrder(by_exe, sorted(DOMAIN by_exe))
  /\ pc' = NextPhase(loop', "user_of", "exit")
  /\ UNCHANGED <<exit_code, exc, conf_vars, scan_vars, pid_paths, unit_vars, pid_units,
                 groups, non_units, pid_exes, unit_paths, by_exe, unit_members,
                 warnings, stat_log, perm_denied, listed, maps_read>>

\* user_of, lines 125-130, called at line 249: os.stat('/proc/<pid>') is
\* outside any try
UserOf ==
  /\ pc = "user_of"
  /\ \E present \in BOOLEAN :
       IF present
       THEN /\ loop' = Tail(loop)
            /\ pc' = NextPhase(Tail(loop), "user_of", "exit")
            /\ UNCHANGED <<exit_code, exc>>
       ELSE /\ Abort("FileNotFoundError")
            /\ UNCHANGED loop
  /\ UNCHANGED <<conf_vars, scan_vars, pid_paths, unit_vars, pid_units, groups,
                 non_units, pid_exes, unit_paths, by_exe, unit_members, warnings,
                 stat_log, perm_denied, listed, maps_read>>

ReportPids == {str(i) : i \in 1..MaxPids}

\* main at line 199, after a scan that found these stale paths
InitReport ==
  /\ pc = "units"
  /\ cfg \in {doc \in Docs : LoadOutcome(doc) = ""}
  /\ \E owners \in SUBSET ReportPids :
       /\ pid_paths \in [owners -> {{LibA}, {LibA, LibB}}]
       /\ all_pids \in Orders(owners)
       /\ ps_world \in [owners -> PsAnswers]
  /\ InitShared

NextReport ==
  UnitCall \/ UnitsReturn \/ Summary \/ ExeReadlink \/ Classify \/ PrintReport \/ UserOf

SpecReport == InitReport /\ [][NextReport]_vars

(* ------------------------ properties of the report --------------------- *)
\* the classification loop of lines 222-231 has run over every pid
Classified ==
  \/ pc \in {"print", "user_of"}
  \/ pc = "exit" /\ exc # "CalledProcessError"

Completed == pc = "exit" /\ exit_code = 0

InExecutableExposure(pid) == \E exe \in DOMAIN by_exe : pid \in by_exe[exe]
InUnitExposure(pid) == pid \in unit_members
Dropped(pid) == Warning("nounit", pid, <<>>) \in warnings

\* the resolver reported a unit for the pid: a line with a name, a unit
\* being a non-empty name other than '-'
ReportedUnit(pid) ==
  /\ ps_world[pid].alive
  /\ ps_world[pid].unit \notin {Dash, <<>>}
Catchall(unit) == match(matcher(cfg["catchall_units"]), unit)

\* C2: for every pid owning a stale path: with a reported unit that is no
\* catchall, all its paths are in unit_paths[unit] and it is in no by_exe
\* entry; otherwise, with a resolved executable, it is in by_exe[exe] only
\* and its paths went to no unit; with neither, a warning was written and
\* it is in neither table.
C2_GroupingRule ==
  Classified =>
    \A pid \in DOMAIN pid_paths :
      IF ReportedUnit(pid) /\ ~Catchall(ps_world[pid].unit)
      THEN /\ ps_world[pid].unit \in DOMAIN unit_paths
           /\ pid_paths[pid] \subseteq unit_paths[ps_world[pid].unit]
           /\ ~InExecutableExposure(pid)
      ELSE IF pid \in DOMAIN pid_exes
      THEN /\ pid \in by_exe[pid_exes[pid]]
           /\ \A exe \in DOMAIN by_exe : pid \in by_exe[exe] => exe = pid_exes[pid]
           /\ ~InUnitExposure(pid)
           /\ ~Dropped(pid)
      ELSE /\ Dropped(pid)
           /\ ~InUnitExposure(pid)
           /\ ~InExecutableExposure(pid)

C2_Witness ==
  /\ Completed
  /\ \E pid \in DOMAIN pid_paths :
       /\ ps_world[pid] = InUnit(UserService)
       /\ InExecutableExposure(pid)
       /\ pid_paths[pid] = {LibA, LibB}
  /\ \E pid \in DOMAIN pid_paths :
       /\ ps_world[pid] = InUnit(NginxService)
       /\ pid \in DOMAIN pid_exes
       /\ unit_paths[NginxService] = {LibA}

\* C3 as stated: when a run completes, every pid of pid_paths is in
\* exactly one of the two tables.
C3_ExactlyOneTable ==
  Completed =>
    \A pid \in DOMAIN pid_paths : InUnitExposure(pid) # InExecutableExposure(pid)

\* C3, amended: when a run completes, every pid of pid_paths is in at most
\* one of the two tables, never both, and in exactly one unless it has
\* neither a usable unit nor a resolved executable: then it is in neither,
\* and a warning was written for it.
C3_AtMostOneTable ==
  Completed =>
    \A pid \in DOMAIN pid_paths :
      /\ ~(InUnitExposure(pid) /\ InExecutableExposure(pid))
      /\ (InUnitExposure(pid) \/ InExecutableExposure(pid)) # Dropped(pid)
      /\ Dropped(pid) <=>
           /\ pid \notin DOMAIN pid_exes
           /\ ~(ReportedUnit(pid) /\ ~Catchall(ps_world[pid].unit))

C3_Witness ==
  /\ Completed
  /\ \E pid \in DOMAIN pid_paths : Dropped(pid) /\ ps_world[pid] = InUnit(Dash)
  /\ \E pid \in DOMAIN pid_paths : InUnitExposure(pid) /\ pid \in DOMAIN pid_exes

\* C4: a process or file that is gone by the time it is read never ends
\* the run: no lookup's 'no longer present' answer leaves main as an
\* exception.
C4_VanishedIsNotFatal ==
  exc \notin {"FileNotFoundError", "CalledProcessError"}

\* C10: the units named in the grouped summary are the keys of unit_paths.
C10_SummaryMatchesUnitPaths ==
  Classified => UNION Range(groups) = DOMAIN unit_paths

====
